---- MODULE Spec2Model ----
(***************************************************************************)
(* The IPL analytics dashboard (src/app.py) as a state machine.            *)
(*                                                                         *)
(* The delivery table is a sequence of rows (records, one field per CSV    *)
(* column the code reads).  A run of the script loads the table            *)
(* (load_data) and renders one page; every page is one action that         *)
(* computes everything its handler computes and leaves it in `out`.        *)
(*                                                                         *)
(* `file` says whether deliveries.csv.zip is there, `raw` is its content,  *)
(* `df` is what load_data returned (st.cache_data keeps it and hands a     *)
(* copy of it to every run), `page_df` is the table object of the last     *)
(* run, as the page left it.                                               *)
(*                                                                         *)
(* Floating-point values are modelled as exact rationals <<n, d>>;         *)
(* <<1, 0>> is float('inf') and <<0, 0>> is NaN.  DataFrame.round is       *)
(* modelled by what it does (round half to even at the given decimals).    *)
(***************************************************************************)
EXTENDS Integers, Sequences, FiniteSets, TLC

VARIABLES raw, file, df, page_df, pc, out

vars == <<raw, file, df, page_df, pc, out>>

None == "None"

(***************************************************************************)
(* Bounds of the model: the number of rows of the delivery table in each   *)
(* family of input tables.                                                 *)
(***************************************************************************)
MaxRows == 3
MaxMatchRows == 3
MaxPhaseRows == 1
MaxTeamRows == 2
MaxSchemaRows == 2
MaxSpellRows == 3
MaxSampleRows == 2
MaxMilestoneRows == 3

(***************************************************************************)
(* Floats as rationals.                                                    *)
(***************************************************************************)
Rat(n, d) == <<n, d>>
Inf == <<1, 0>>
NaN == <<0, 0>>
Zero == <<0, 1>>
IsFinite(a) == a[2] > 0
RatEq(a, b) == a[2] > 0 /\ b[2] > 0 /\ a[1] * b[2] = b[1] * a[2]
RatLess(a, b) == a # NaN /\ b # NaN /\ a[1] * b[2] < b[1] * a[2]

\* a / b for non-negative a and positive b
RatDiv(a, b) == <<a[1] * b[2], a[2] * b[1]>>
RatMul(a, k) == <<a[1] * k, a[2]>>

\* round(x, decimals) of a non-negative finite x, scale = 10^decimals:
\* to the nearest multiple of 1/scale, halves to the even one.
RoundTo(a, scale) ==
    LET num == a[1] * scale
        q == num \div a[2]
        r == num % a[2]
        up == (2 * r > a[2]) \/ (2 * r = a[2] /\ q % 2 = 1)
    IN  <<IF up THEN q + 1 ELSE q, scale>>

(***************************************************************************)
(* DataFrame helpers.                                                      *)
(***************************************************************************)
RECURSIVE SumCol(_, _)
SumCol(t, col) == IF t = <<>> THEN 0 ELSE t[1][col] + SumCol(Tail(t), col)

Unique(t, col) == {t[i][col] : i \in DOMAIN t}

Where(t, col, v) == SelectSeq(t, LAMBDA r : r[col] = v)

CountEq(t, col, v) == Len(Where(t, col, v))

\* df.columns; a table without rows is taken to have the full header
AllColumns == {"match_id", "over", "batter", "bowler", "batting_team",
               "bowling_team", "batsman_runs", "total_runs", "is_wicket"}

Columns(t) == IF t = <<>> THEN AllColumns ELSE DOMAIN t[1]

\* the column whose lookup raises KeyError when the columns of `used` are
\* looked up in this order: the first one the table lacks, None if none
first_missing(t, used) ==
    LET I == {i \in DOMAIN used : used[i] \notin Columns(t)}
    IN  IF I = {} THEN None ELSE used[CHOOSE i \in I : \A j \in I : i <= j]

Max(S) == CHOOSE x \in S : \A y \in S : y <= x
Min(S) == CHOOSE x \in S : \A y \in S : x <= y

(***************************************************************************)
(* load_data: the team-name mapping and Series.replace.                    *)
(***************************************************************************)
\* the mapping with the two spellings of the Bengaluru franchise swapped
team_mapping_swapped ==
    [k \in {"Rising Pune Supergiants", "Royal Challengers Bangalore",
            "Royal Challengers Bengaluru"} |->
        CASE k = "Rising Pune Supergiants" -> "Rising Pune Supergiant"
          [] k = "Royal Challengers Bangalore" -> "Royal Challengers Bengaluru"
          [] k = "Royal Challengers Bengaluru" -> "Royal Challengers Bangalore"]

team_mapping ==
    [k \in {"Rising Pune Supergiants", "Royal Challengers Bangalore",
            "Royal Challengers Bengaluru"} |->
        CASE k = "Rising Pune Supergiants" -> "Rising Pune Supergiant"
          [] k = "Royal Challengers Bangalore" -> "Royal Challengers Bengaluru"
          [] k = "Royal Challengers Bengaluru" -> "Royal Challengers Bengaluru"]

\* Series.map(mapping) on one value: a name that is no key becomes NaN
replace_by_map(mapping, v) == IF v \in DOMAIN mapping THEN mapping[v] ELSE "nan"

\* Series.replace(mapping) on one value: a key is replaced by its value,
\* in one step (the mapping is not chased); anything else is kept.
replace(mapping, v) == IF v \in DOMAIN mapping THEN mapping[v] ELSE v

normalize(t) ==
    [i \in DOMAIN t |->
        [t[i] EXCEPT !.batting_team = replace(team_mapping, @),
                     !.bowling_team = replace(team_mapping, @)]]

\* the body of the try block raises: the archive cannot be opened, or one of
\* the two columns it indexes is not in the CSV
load_raises(f, t) ==
    \/ f = "missing"
    \/ first_missing(t, <<"batting_team", "bowling_team">>) # None

\* load_data(): the normalized table, None from the except branch
load_data(f, t) == IF load_raises(f, t) THEN None ELSE normalize(t)

(***************************************************************************)
(* analyze_batsman(df, player)                                             *)
(***************************************************************************)
\* groupby('match_id')[col].sum() as a function match_id -> sum
MatchSums(t, col) ==
    [m \in Unique(t, "match_id") |-> SumCol(Where(t, "match_id", m), col)]

\* Series.max() / Series.min(): NaN on an empty series
SeriesMax(f) == IF DOMAIN f = {} THEN NaN ELSE Rat(Max({f[m] : m \in DOMAIN f}), 1)
SeriesMin(f) == IF DOMAIN f = {} THEN NaN ELSE Rat(Min({f[m] : m \in DOMAIN f}), 1)

\* the strike rate as a plain ratio of runs to balls (not per 100 balls)
batsman_strike_rate_ratio(total_runs, total_balls) ==
    IF total_balls > 0 THEN Rat(total_runs, total_balls) ELSE Zero

\* 'strike_rate' of analyze_batsman
batsman_strike_rate(total_runs, total_balls) ==
    IF total_balls > 0 THEN RatMul(Rat(total_runs, total_balls), 100) ELSE Zero

\* 'average' of analyze_batsman
batsman_average(total_runs, dismissals) ==
    IF dismissals > 0 THEN Rat(total_runs, dismissals) ELSE Rat(total_runs, 1)

analyze_batsman(t, player) ==
    LET player_df == Where(t, "batter", player)
        total_runs == SumCol(player_df, "batsman_runs")
        total_balls == Len(player_df)
        dismissals == SumCol(player_df, "is_wicket")
        scores == MatchSums(player_df, "batsman_runs")
    IN  [total_runs |-> total_runs,
         strike_rate |-> batsman_strike_rate(total_runs, total_balls),
         average |-> batsman_average(total_runs, dismissals),
         highest_score |-> SeriesMax(scores),
         fifties |-> Cardinality({m \in DOMAIN scores : scores[m] >= 50}),
         centuries |-> Cardinality({m \in DOMAIN scores : scores[m] >= 100}),
         sixes |-> CountEq(player_df, "batsman_runs", 6),
         fours |-> CountEq(player_df, "batsman_runs", 4),
         balls_faced |-> total_balls]

(***************************************************************************)
(* analyze_bowler(df, player)                                              *)
(***************************************************************************)
\* the economy rate without the guard for a bowler who bowled no ball:
\* 0 / 0.0 on numpy numbers is nan
bowler_economy_unguarded(runs, overs) ==
    IF RatLess(Zero, overs) THEN RatDiv(Rat(runs, 1), overs) ELSE NaN

\* 'economy' of analyze_bowler
bowler_economy(runs, overs) ==
    IF RatLess(Zero, overs) THEN RatDiv(Rat(runs, 1), overs) ELSE Zero

\* the bowling average with the batting convention for a zero count
bowler_average_runs(runs, wickets) ==
    IF wickets > 0 THEN Rat(runs, wickets) ELSE Rat(runs, 1)

\* 'average' of analyze_bowler
bowler_average(runs, wickets) ==
    IF wickets > 0 THEN Rat(runs, wickets) ELSE Inf

analyze_bowler(t, player) ==
    LET player_df == Where(t, "bowler", player)
        wickets == SumCol(player_df, "is_wicket")
        runs == SumCol(player_df, "total_runs")
        balls == Len(player_df)
        overs == Rat(balls, 6)
        hauls == MatchSums(player_df, "is_wicket")
        conceded == MatchSums(player_df, "total_runs")
    IN  [wickets |-> wickets,
         economy |-> bowler_economy(runs, overs),
         average |-> bowler_average(runs, wickets),
         best_bowling |-> <<SeriesMax(hauls), SeriesMin(conceded)>>,
         three_wicket_hauls |-> Cardinality({m \in DOMAIN hauls : hauls[m] >= 3}),
         overs_bowled |-> overs,
         runs_conceded |-> runs]

(***************************************************************************)
(* player_analysis_page(df)                                                *)
(***************************************************************************)
\* sort_values(ascending=False).head(10) on groups, key[g] being the sort
\* value of group g: the ten groups with the largest values (all of them
\* when there are at most ten).
Head10(key) ==
    LET S == DOMAIN key
    IN  IF Cardinality(S) <= 10 THEN S
        ELSE CHOOSE T \in SUBSET S :
                /\ Cardinality(T) = 10
                /\ \A a \in T, b \in S \ T : key[a] >= key[b]

\* the options of a selectbox and what it returns: None when there are none
Options(S) == IF S = {} THEN {None} ELSE S

\* the batsman/bowler match-up block (dot balls, boundaries, rate text)
matchup_stats(matchup_df) ==
    LET total_balls == Len(matchup_df)
        total_runs == SumCol(matchup_df, "batsman_runs")
    IN  [total_balls |-> total_balls,
         total_runs |-> total_runs,
         wickets |-> SumCol(matchup_df, "is_wicket"),
         dot_balls |-> CountEq(matchup_df, "batsman_runs", 0),
         fours |-> CountEq(matchup_df, "batsman_runs", 4),
         sixes |-> CountEq(matchup_df, "batsman_runs", 6)]

\* the Average column computed on the raw dismissal count
team_stats_Average_raw(runs, wk) ==
    IF wk = 0 THEN (IF runs > 0 THEN Inf ELSE NaN) ELSE RoundTo(Rat(runs, wk), 100)

\* team_stats['Average']: (batsman_runs / is_wicket.replace(0, 1)).round(2)
team_stats_Average(runs, wk) == RoundTo(Rat(runs, IF wk = 0 THEN 1 ELSE wk), 100)

\* bowler_stats with the dot balls dropped from the batter's rows before
\* the grouping, so that sizes and rates are taken on a filtered frame
batsman_bowler_stats_prefiltered(player_df) ==
    LET scoring == SelectSeq(player_df, LAMBDA r : r.batsman_runs > 0)
        all_bowlers ==
            {LET g == Where(scoring, "bowler", b)
                 runs == SumCol(g, "batsman_runs")
                 size == Len(g)
             IN  [bowler |-> b, batsman_runs |-> runs, batter |-> size,
                  is_wicket |-> SumCol(g, "is_wicket"),
                  Strike_Rate |-> RoundTo(RatMul(Rat(runs, size), 100), 100)]
             : b \in Unique(scoring, "bowler")}
    IN  Head10([r \in {x \in all_bowlers : x.batter >= 6} |-> r.batsman_runs])

\* bowler_stats of the batsman branch: per bowler, at least 6 balls, top ten
batsman_bowler_stats(player_df) ==
    LET all_bowlers ==
            {LET g == Where(player_df, "bowler", b)
                 runs == SumCol(g, "batsman_runs")
                 size == Len(g)
             IN  [bowler |-> b, batsman_runs |-> runs, batter |-> size,
                  is_wicket |-> SumCol(g, "is_wicket"),
                  Strike_Rate |-> RoundTo(RatMul(Rat(runs, size), 100), 100)]
             : b \in Unique(player_df, "bowler")}
    IN  Head10([r \in {x \in all_bowlers : x.batter >= 6} |-> r.batsman_runs])

\* player_type == "Batsman"
player_batsman(t, player, selected_bowler) ==
    LET player_df == Where(t, "batter", player)
        total_runs == SumCol(player_df, "batsman_runs")
        balls_faced == Len(player_df)
        team_stats ==
            [tm \in Unique(player_df, "bowling_team") |->
                LET g == Where(player_df, "bowling_team", tm)
                    runs == SumCol(g, "batsman_runs")
                    size == Len(g)
                    wk == SumCol(g, "is_wicket")
                IN  [batsman_runs |-> runs, batter |-> size, is_wicket |-> wk,
                     Strike_Rate |-> RoundTo(RatMul(Rat(runs, size), 100), 100),
                     Average |-> team_stats_Average(runs, wk)]]
        matchup == matchup_stats(Where(player_df, "bowler", selected_bowler))
    IN  [total_runs |-> total_runs,
         balls_faced |-> balls_faced,
         strike_rate |-> IF balls_faced > 0
                         THEN RatMul(Rat(total_runs, balls_faced), 100)
                         ELSE Zero,
         fours |-> CountEq(player_df, "batsman_runs", 4),
         sixes |-> CountEq(player_df, "batsman_runs", 6),
         team_stats |-> team_stats,
         bowler_stats |-> batsman_bowler_stats(player_df),
         matchup |-> IF selected_bowler = None THEN None
                     ELSE matchup @@
                          [strike_rate |->
                              IF matchup.total_balls > 0
                              THEN RatMul(Rat(matchup.total_runs, matchup.total_balls), 100)
                              ELSE Zero]]

\* team_stats['Overs']: (balls / 6).round(1)
team_stats_Overs(balls) == RoundTo(Rat(balls, 6), 10)

\* team_stats['Economy']: (total_runs / Overs).round(2)
team_stats_Economy(total_runs, Overs) == RoundTo(RatDiv(Rat(total_runs, 1), Overs), 100)

\* batsman_stats of the bowler branch: per batsman, at least 6 balls, top ten
bowler_batsman_stats(player_df) ==
    LET all_batsmen ==
            {LET g == Where(player_df, "batter", b)
                 runs == SumCol(g, "batsman_runs")
             IN  [batter |-> b, batsman_runs |-> runs, bowler |-> Len(g),
                  is_wicket |-> SumCol(g, "is_wicket"),
                  Economy |-> RoundTo(RatDiv(Rat(runs, 1), Rat(Len(g), 6)), 100)]
             : b \in Unique(player_df, "batter")}
    IN  Head10([r \in {x \in all_batsmen : x.bowler >= 6} |-> r.is_wicket])

\* player_type == "Bowler"
player_bowler(t, player, selected_batsman) ==
    LET player_df == Where(t, "bowler", player)
        total_wickets == SumCol(player_df, "is_wicket")
        balls_bowled == Len(player_df)
        overs == Rat(balls_bowled, 6)
        runs_conceded == SumCol(player_df, "total_runs")
        team_stats ==
            [tm \in Unique(player_df, "batting_team") |->
                LET g == Where(player_df, "batting_team", tm)
                    Overs == team_stats_Overs(Len(g))
                    runs == SumCol(g, "total_runs")
                IN  [is_wicket |-> SumCol(g, "is_wicket"),
                     total_runs |-> runs,
                     bowler |-> Len(g),
                     Overs |-> Overs,
                     Economy |-> team_stats_Economy(runs, Overs)]]
        matchup == matchup_stats(Where(player_df, "batter", selected_batsman))
    IN  [total_wickets |-> total_wickets,
         overs |-> overs,
         runs_conceded |-> runs_conceded,
         economy |-> IF RatLess(Zero, overs)
                     THEN RatDiv(Rat(runs_conceded, 1), overs)
                     ELSE Zero,
         team_stats |-> team_stats,
         batsman_stats |-> bowler_batsman_stats(player_df),
         matchup |-> IF selected_batsman = None THEN None
                     ELSE matchup @@
                          [economy |->
                              IF matchup.total_balls > 0
                              THEN Rat(matchup.total_runs * 6, matchup.total_balls)
                              ELSE Zero]]

(***************************************************************************)
(* head_to_head_page(df)                                                   *)
(***************************************************************************)
\* Python's `a or b` on a float: b when a is 0, a otherwise (NaN is truthy)
PyOr(a, b) == IF a[1] = 0 /\ a[2] > 0 THEN b ELSE a

team_vs_team_rows(t, team1, team2) ==
    SelectSeq(t, LAMBDA r :
        \/ (r.batting_team = team1 /\ r.bowling_team = team2)
        \/ (r.batting_team = team2 /\ r.bowling_team = team1))

\* the "Team 1 Metrics" / "Team 2 Metrics" block for `team` against `other`
team_metrics(team_vs_team, team, other) ==
    LET stats == Where(team_vs_team, "batting_team", team)
        other_stats == Where(team_vs_team, "batting_team", other)
        runs == SumCol(stats, "total_runs")
        balls == Len(stats)
        overs == Rat(balls, 6)
    IN  [runs |-> runs,
         balls |-> balls,
         rr |-> IF RatLess(Zero, overs) THEN RatDiv(Rat(runs, 1), overs) ELSE Zero,
         wickets |-> SumCol(Where(team_vs_team, "bowling_team", team), "is_wicket"),
         overs_bowled |-> Rat(Len(other_stats), 6),
         economy |-> IF RatLess(Zero, overs) THEN RatDiv(Rat(runs, 1), overs) ELSE Zero,
         highest |-> PyOr(SeriesMax(MatchSums(stats, "total_runs")), Zero)]

\* match_results without the dropna: a match in which one of the two teams
\* did not bat stays in the pivot with a NaN, which compares false
match_results_keep_na(t, team1, team2) ==
    LET sub == SelectSeq(t, LAMBDA r : r.batting_team \in {team1, team2})
        columns == Unique(sub, "batting_team")
        total(m, tm) ==
            SumCol(SelectSeq(sub, LAMBDA r : r.match_id = m /\ r.batting_team = tm),
                   "total_runs")
        batted(m, tm) == \E i \in DOMAIN sub :
                            sub[i].match_id = m /\ sub[i].batting_team = tm
        match_pivot == Unique(sub, "match_id")
        both == {m \in match_pivot : batted(m, team1) /\ batted(m, team2)}
    IN  IF team1 \notin columns \/ team2 \notin columns
        THEN [error |-> "KeyError"]
        ELSE [error |-> None,
              matches_played |-> Cardinality(match_pivot),
              team1_wins |-> Cardinality({m \in both : total(m, team1) > total(m, team2)}),
              team2_wins |-> Cardinality({m \in both : total(m, team2) > total(m, team1)}),
              ties |-> Cardinality({m \in both : total(m, team1) = total(m, team2)})]

\* match_summary / match_pivot / dropna and the win and tie counts.  The
\* pivot has one column per batting team found among the two selected
\* teams' rows; indexing a column that is not there raises KeyError.
match_results(t, team1, team2) ==
    LET sub == SelectSeq(t, LAMBDA r : r.batting_team \in {team1, team2})
        columns == Unique(sub, "batting_team")
        total(m, tm) ==
            SumCol(SelectSeq(sub, LAMBDA r : r.match_id = m /\ r.batting_team = tm),
                   "total_runs")
        batted(m, tm) == \E i \in DOMAIN sub :
                            sub[i].match_id = m /\ sub[i].batting_team = tm
        match_pivot == {m \in Unique(sub, "match_id") : \A c \in columns : batted(m, c)}
    IN  IF team1 \notin columns \/ team2 \notin columns
        THEN [error |-> "KeyError"]
        ELSE [error |-> None,
              matches_played |-> Cardinality(match_pivot),
              team1_wins |-> Cardinality({m \in match_pivot : total(m, team1) > total(m, team2)}),
              team2_wins |-> Cardinality({m \in match_pivot : total(m, team2) > total(m, team1)}),
              ties |-> Cardinality({m \in match_pivot : total(m, team1) = total(m, team2)})]

get_phase_stats(team_data, phase_start, phase_end) ==
    LET phase_df == SelectSeq(team_data, LAMBDA r :
                        r.over >= phase_start /\ r.over <= phase_end)
        runs == SumCol(phase_df, "total_runs")
        balls == Len(phase_df)
        overs == Rat(balls, 6)
    IN  [runs |-> runs,
         balls |-> balls,
         rr |-> IF RatLess(Zero, overs) THEN RatDiv(Rat(runs, 1), overs) ELSE Zero,
         wickets |-> SumCol(phase_df, "is_wicket"),
         economy |-> IF RatLess(Zero, overs) THEN RatDiv(Rat(runs, 1), overs) ELSE Zero]

phases == <<[name |-> "Powerplay (1-6)", start |-> 1, end |-> 6],
            [name |-> "Middle Overs (7-15)", start |-> 7, end |-> 15],
            [name |-> "Death Overs (16-20)", start |-> 16, end |-> 20]>>

\* the ten top scorers among a team's batters in these meetings
top_batsmen(stats) ==
    Head10([b \in Unique(stats, "batter") |->
                SumCol(Where(stats, "batter", b), "batsman_runs")])

\* the ten top wicket takers among a team's bowlers in these meetings
top_bowlers(team_vs_team, team) ==
    LET bowled == Where(team_vs_team, "bowling_team", team)
    IN  Head10([b \in Unique(bowled, "bowler") |->
                    SumCol(Where(bowled, "bowler", b), "is_wicket")])

\* one tab of "Batsman vs Bowler Analysis"
h2h_matchup(team_vs_team, selected_batsman, selected_bowler) ==
    IF selected_batsman = None \/ selected_bowler = None THEN None
    ELSE LET matchup_df == SelectSeq(team_vs_team, LAMBDA r :
                              r.batter = selected_batsman /\ r.bowler = selected_bowler)
             m == matchup_stats(matchup_df)
         IN  m @@ [sr |-> IF m.total_balls > 0
                          THEN RatMul(Rat(m.total_runs, m.total_balls), 100)
                          ELSE Zero]

head_to_head(t, team1, team2, bat1, bowl2, bat2, bowl1) ==
    IF team1 = None \/ team2 = None THEN [status |-> "select two teams"]
    ELSE IF team1 = team2 THEN [status |-> "same team"]
    ELSE
    LET team_vs_team == team_vs_team_rows(t, team1, team2)
        team1_stats == Where(team_vs_team, "batting_team", team1)
        team2_stats == Where(team_vs_team, "batting_team", team2)
        results == match_results(t, team1, team2)
        innings == [team1 |-> team_metrics(team_vs_team, team1, team2),
                    team2 |-> team_metrics(team_vs_team, team2, team1)]
    IN  IF first_missing(t, <<"total_runs", "is_wicket", "match_id">>) # None
        THEN [status |-> "KeyError",
              key |-> first_missing(t, <<"total_runs", "is_wicket", "match_id">>)]
        ELSE IF results.error # None
        THEN [status |-> results.error, innings |-> innings]
        ELSE IF first_missing(t, <<"over", "batter", "batsman_runs", "bowler">>) # None
        THEN [status |-> "KeyError", innings |-> innings, results |-> results,
              key |-> first_missing(t, <<"over", "batter", "batsman_runs", "bowler">>)]
        ELSE [status |-> "ok",
              innings |-> innings,
              results |-> results,
              phase1 |-> [i \in DOMAIN phases |->
                            get_phase_stats(team1_stats, phases[i].start, phases[i].end)],
              phase2 |-> [i \in DOMAIN phases |->
                            get_phase_stats(team2_stats, phases[i].start, phases[i].end)],
              tab1 |-> h2h_matchup(team_vs_team, bat1, bowl2),
              tab2 |-> h2h_matchup(team_vs_team, bat2, bowl1)]

(***************************************************************************)
(* tournament_stats_page(df)                                               *)
(***************************************************************************)
\* int(str(match_id)[:4]) for a numeric match_id: its leading four digits
RECURSIVE season_of(_)
season_of(match_id) ==
    IF match_id < 10000 THEN match_id ELSE season_of(match_id \div 10)

\* get_phase with the boundaries taken as exclusive
get_phase_exclusive(over) ==
    IF over < 6 THEN "Powerplay (1-6)"
    ELSE IF over < 15 THEN "Middle Overs (7-15)"
    ELSE "Death Overs (16-20)"

get_phase(over) ==
    IF over <= 6 THEN "Powerplay (1-6)"
    ELSE IF over <= 15 THEN "Middle Overs (7-15)"
    ELSE "Death Overs (16-20)"

with_season(t) == [i \in DOMAIN t |-> t[i] @@ [season |-> season_of(t[i].match_id)]]

with_phase(t) == [i \in DOMAIN t |-> t[i] @@ [phase |-> get_phase(t[i].over)]]

tournament_stats(t, selected_season, selected_team) ==
    LET seasoned == with_season(t)
        season_data == with_phase(Where(seasoned, "season", selected_season))
        group(col, v) == Where(season_data, col, v)
    IN  [total_matches |-> Cardinality(Unique(season_data, "match_id")),
         total_runs |-> SumCol(season_data, "total_runs"),
         total_fours |-> CountEq(season_data, "batsman_runs", 4),
         total_sixes |-> CountEq(season_data, "batsman_runs", 6),
         team_runs |-> [tm \in Unique(season_data, "batting_team") |->
                          SumCol(group("batting_team", tm), "total_runs")],
         top_batsmen |-> Head10([b \in Unique(season_data, "batter") |->
                                    SumCol(group("batter", b), "batsman_runs")]),
         top_bowlers |-> Head10([b \in Unique(season_data, "bowler") |->
                                    SumCol(group("bowler", b), "is_wicket")]),
         season_data |-> season_data,
         phase_stats |-> [ph \in Unique(season_data, "phase") |->
                            [total_runs |-> SumCol(group("phase", ph), "total_runs"),
                             is_wicket |-> SumCol(group("phase", ph), "is_wicket")]],
         team_phase_data |->
            IF selected_team = None THEN None
            ELSE LET team_rows == group("batting_team", selected_team)
                 IN  [ph \in Unique(team_rows, "phase") |->
                        [total_runs |-> SumCol(Where(team_rows, "phase", ph), "total_runs"),
                         is_wicket |-> SumCol(Where(team_rows, "phase", ph), "is_wicket")]]]

\* the table object the page was handed, as tournament_stats_page leaves
\* it: df['season'] = ... is an assignment to that object
tournament_stats_df(t) ==
    IF first_missing(t, <<"match_id">>) # None THEN t ELSE with_season(t)

(***************************************************************************)
(* team_analysis_page(df)                                                  *)
(***************************************************************************)
\* DataFrame.groupby(col): KeyError when the frame has no such column
groupby_raises(t, col) == t # <<>> /\ col \notin DOMAIN t[1]

\* The page up to the statement that ends it.  batting_df and bowling_df
\* are taken from df first, the season column is assigned to df after
\* that, and the subsets are then grouped by 'season'.  A subset has at
\* least one row (the team was picked from the batting teams of df), so
\* its columns are those of its rows.  Only a CSV that brings a season
\* column of its own gets past the grouping; the charts and the player
\* tables that follow it are then built from the two season tables and
\* from analyze_batsman and analyze_bowler.
team_analysis(t, team) ==
    IF team = None THEN [status |-> "no team"]
    ELSE
    LET batting_df == Where(t, "batting_team", team)
        bowling_df == Where(t, "bowling_team", team)
        key == first_missing(t, <<"total_runs", "is_wicket", "match_id">>)
        overview == [total_runs_scored |-> SumCol(batting_df, "total_runs"),
                     total_runs_conceded |-> SumCol(bowling_df, "total_runs"),
                     total_wickets_taken |-> SumCol(bowling_df, "is_wicket"),
                     total_wickets_lost |-> SumCol(batting_df, "is_wicket")]
    IN  IF key \in {"total_runs", "is_wicket"}
        THEN [status |-> "KeyError", key |-> key]
        ELSE IF key = "match_id"
        THEN [status |-> "KeyError", key |-> key, overview |-> overview]
        ELSE IF groupby_raises(batting_df, "season")
        THEN [status |-> "KeyError", key |-> "season", overview |-> overview,
              seasons |-> Unique(with_season(t), "season")]
        ELSE [status |-> "ok", overview |-> overview,
              seasons |-> Unique(with_season(t), "season"),
              season_batting |-> [y \in Unique(batting_df, "season") |->
                                    SumCol(Where(batting_df, "season", y), "total_runs")],
              season_bowling |-> [y \in Unique(bowling_df, "season") |->
                                    SumCol(Where(bowling_df, "season", y), "total_runs")]]

\* the table object the page was handed, as team_analysis_page leaves it
team_analysis_df(t, team) ==
    IF team = None \/ first_missing(t, <<"total_runs", "is_wicket", "match_id">>) # None
    THEN t
    ELSE with_season(t)

(***************************************************************************)
(* detect_milestones(rows, threshold).  app.py has no milestone scan (it   *)
(* only counts the matches with a total of 50 or 100, in analyze_batsman); *)
(* the scan is modelled from section 4.3 of the specification.             *)
(***************************************************************************)
\* the running sum of batsman_runs after the first k balls of an innings
cumulative(sub, k) == SumCol(SubSeq(sub, 1, k), "batsman_runs")

\* the position of the first ball at which the running sum has reached the
\* threshold, counted from 0
balls_to_threshold_from_zero(sub, threshold) ==
    Min({k \in 1..Len(sub) : cumulative(sub, k) >= threshold}) - 1

\* the 1-based position of the first ball at which the running sum has
\* reached the threshold (the innings reaches it)
balls_to_threshold(sub, threshold) ==
    Min({k \in 1..Len(sub) : cumulative(sub, k) >= threshold})

detect_milestones(rows, threshold) ==
    LET innings(m, b) == SelectSeq(rows, LAMBDA r : r.match_id = m /\ r.batter = b)
        pairs == {<<rows[i].match_id, rows[i].batter>> : i \in DOMAIN rows}
        reached == {p \in pairs :
                      /\ cumulative(innings(p[1], p[2]), Len(innings(p[1], p[2]))) >= threshold
                      /\ Cardinality(Unique(innings(p[1], p[2]), "bowling_team")) = 1}
    IN  {[player |-> p[2],
          match_id |-> p[1],
          balls_to_threshold |-> balls_to_threshold(innings(p[1], p[2]), threshold),
          final_score |-> cumulative(innings(p[1], p[2]), Len(innings(p[1], p[2]))),
          opponent |-> innings(p[1], p[2])[1].bowling_team] : p \in reached}

(***************************************************************************)
(* The input tables.                                                       *)
(***************************************************************************)
Row(m, o, bat, bowl, bt, wt, br, tr, w) ==
    [match_id |-> m, over |-> o, batter |-> bat, bowler |-> bowl,
     batting_team |-> bt, bowling_team |-> wt,
     batsman_runs |-> br, total_runs |-> tr, is_wicket |-> w]

\* one ball of an innings of Chennai Super Kings against Mumbai Indians (1)
\* or of Mumbai Indians against Chennai Super Kings (2)
Ball(m, o, innings, br, tr, w) ==
    IF innings = 1
    THEN Row(m, o, "MS Dhoni", "JJ Bumrah", "Chennai Super Kings", "Mumbai Indians", br, tr, w)
    ELSE Row(m, o, "RG Sharma", "RA Jadeja", "Mumbai Indians", "Chennai Super Kings", br, tr, w)

SeqsUpTo(S, n) == UNION {[1..k -> S] : k \in 0..n}

\* <<batsman_runs, total_runs, is_wicket>>: a wicket, a run-out on a single,
\* a wide, a four
Outcomes == {<<0, 0, 1>>, <<1, 1, 1>>, <<0, 1, 0>>, <<4, 4, 0>>}

StatRows == {Ball(335982, 1, inn, o[1], o[2], o[3]) : inn \in {1, 2}, o \in Outcomes}

MatchRows == {Ball(m, 1, inn, r, r, 0) : m \in {335982, 335983}, inn \in {1, 2}, r \in {1, 2}}

Overs == 0..21

PhaseRows == {Ball(335982, o, 1, 1, 1, 0) : o \in Overs}

TeamNames == {"Rising Pune Supergiants", "Rising Pune Supergiant",
              "Royal Challengers Bangalore", "Royal Challengers Bengaluru",
              "Deccan Chargers", "Sunrisers Hyderabad",
              "Chennai Super Kings", "Mumbai Indians"}

TeamRows == {Row(335982, 1, "MS Dhoni", "JJ Bumrah", bt, wt, 1, 1, 0) :
                bt \in TeamNames, wt \in {"Royal Challengers Bangalore", "Mumbai Indians"}}

StatTables == SeqsUpTo(StatRows, MaxRows)
MatchTables == SeqsUpTo(MatchRows, MaxMatchRows)
PhaseTables == {s \o <<Ball(335982, 1, 2, 1, 1, 0)>> : s \in SeqsUpTo(PhaseRows, MaxPhaseRows)}
TeamTables == SeqsUpTo(TeamRows, MaxTeamRows)

\* balls of JJ Bumrah to MS Dhoni in two matches: a wicket, a four, and a
\* ball with five runs to the batter
SpellRows == {Ball(m, 1, 1, o[1], o[2], o[3]) :
                m \in {335982, 335983}, o \in {<<0, 0, 1>>, <<4, 4, 0>>, <<5, 5, 0>>}}

SpellTables == SeqsUpTo(SpellRows, MaxSpellRows)

\* balls to MS Dhoni: a single and a wicket ball from JJ Bumrah, a four
\* off SL Malinga
SampleRows ==
    {Row(335982, 1, "MS Dhoni", "JJ Bumrah", "Chennai Super Kings", "Mumbai Indians", 1, 1, 0),
     Row(335982, 1, "MS Dhoni", "JJ Bumrah", "Chennai Super Kings", "Mumbai Indians", 0, 0, 1),
     Row(335982, 2, "MS Dhoni", "SL Malinga", "Chennai Super Kings", "Mumbai Indians", 4, 4, 0)}

\* five balls from JJ Bumrah, one short of the minimum sample of the player
\* page, and then up to MaxSampleRows further balls
SampleTables ==
    {s \o e : s \in [1..5 -> {r \in SampleRows : r.bowler = "JJ Bumrah"}],
              e \in SeqsUpTo(SampleRows, MaxSampleRows)}

\* an innings of MS Dhoni that starts with ten fours and goes on with
\* fours and sixes, with balls to RG Sharma (the other innings of the match)
\* in between
MilestoneRows == {Ball(335982, 1, 1, 4, 4, 0), Ball(335982, 1, 1, 6, 6, 0),
                  Ball(335982, 1, 2, 4, 4, 0)}

MilestoneTables ==
    {[i \in 1..10 |-> Ball(335982, 1, 1, 4, 4, 0)] \o s :
        s \in SeqsUpTo(MilestoneRows, MaxMilestoneRows)}

\* a CSV without the column c (c = None: with all its columns)
Drop(t, c) == [i \in DOMAIN t |-> [k \in (DOMAIN t[i]) \ {c} |-> t[i][k]]]

SchemaRows == {Ball(335982, 1, inn, 4, 4, 0) : inn \in {1, 2}}

SchemaTables == {Drop(t, c) : t \in SeqsUpTo(SchemaRows, MaxSchemaRows),
                              c \in AllColumns \cup {None}}

(***************************************************************************)
(* The state machine: one run of the script per action.                    *)
(***************************************************************************)
Start(tables, files) ==
    /\ raw \in tables
    /\ file \in files
    /\ df = None
    /\ page_df = None
    /\ pc = "start"
    /\ out = [page |-> None]

Init == Start(StatTables, {"present"})
InitMatch == Start(MatchTables, {"present"})
InitPhase == Start(PhaseTables, {"present"})
InitTeam == Start(TeamTables, {"present"})
InitSchema == Start(SchemaTables, {"present", "missing"})
InitSpell == Start(SpellTables, {"present"})
InitSample == Start(SampleTables, {"present"})
InitMilestone == Start(MilestoneTables, {"present"})

\* main() going on to the navigation although load_data returned None
main_no_return(is_none) == "ready"

\* main() after load_data(): `if df is None: st.error(...); return`
main_after_load(is_none) == IF is_none THEN "failed" ELSE "ready"

\* main(): load_data() on the first run.  load_data returns None exactly
\* when its try block raised; it has then shown its own st.error, and main
\* shows a second one and returns.
Load ==
    /\ pc = "start"
    /\ df' = load_data(file, raw)
    /\ page_df' = load_data(file, raw)
    /\ pc' = main_after_load(load_raises(file, raw))
    /\ out' = IF main_after_load(load_raises(file, raw)) = "failed"
              THEN [page |-> "error",
                    errors |-> <<"Error loading data", "Failed to load data">>]
              ELSE out
    /\ UNCHANGED <<raw, file>>

h2h_columns == <<"total_runs", "is_wicket", "match_id", "over", "batter",
                 "batsman_runs", "bowler">>

HeadToHead ==
    /\ pc = "ready"
    /\ \E team1 \in Options(Unique(df, "batting_team")),
          team2 \in Options(Unique(df, "bowling_team")) :
        LET team_vs_team == team_vs_team_rows(df, team1, team2)
            tabs == /\ team1 # None /\ team2 # None /\ team1 # team2
                    /\ first_missing(df, h2h_columns) = None
                    /\ match_results(df, team1, team2).error = None
            batsmen(tm) == IF tabs
                           THEN Options(top_batsmen(Where(team_vs_team, "batting_team", tm)))
                           ELSE {None}
            bowlers(tm) == IF tabs THEN Options(top_bowlers(team_vs_team, tm)) ELSE {None}
        IN  \E bat1 \in batsmen(team1), bowl2 \in bowlers(team2),
               bat2 \in batsmen(team2), bowl1 \in bowlers(team1) :
                out' = [page |-> "head_to_head", team1 |-> team1, team2 |-> team2,
                        bat1 |-> bat1, bowl2 |-> bowl2, bat2 |-> bat2, bowl1 |-> bowl1,
                        res |-> head_to_head(df, team1, team2, bat1, bowl2, bat2, bowl1)]
    /\ page_df' = df
    /\ UNCHANGED <<raw, file, df, pc>>

player_batsman_columns == <<"batter", "batsman_runs", "bowling_team", "is_wicket", "bowler">>

PlayerBatsman ==
    /\ pc = "ready"
    /\ LET key == first_missing(df, player_batsman_columns)
       IN  \E player \in IF key = "batter" THEN {None} ELSE Options(Unique(df, "batter")) :
            \E selected_bowler \in
                  IF player = None \/ key # None THEN {None}
                  ELSE Options({r.bowler : r \in batsman_bowler_stats(Where(df, "batter", player))}) :
                out' = [page |-> "player_batsman", player |-> player,
                        selected |-> selected_bowler,
                        res |-> IF key # None THEN [status |-> "KeyError", key |-> key]
                                ELSE IF player = None THEN None
                                ELSE player_batsman(df, player, selected_bowler)]
    /\ page_df' = df
    /\ UNCHANGED <<raw, file, df, pc>>

player_bowler_columns == <<"bowler", "is_wicket", "total_runs", "batting_team", "batter",
                           "batsman_runs">>

PlayerBowler ==
    /\ pc = "ready"
    /\ LET key == first_missing(df, player_bowler_columns)
       IN  \E player \in IF key = "bowler" THEN {None} ELSE Options(Unique(df, "bowler")) :
            \E selected_batsman \in
                  IF player = None \/ key # None THEN {None}
                  ELSE Options({r.batter : r \in bowler_batsman_stats(Where(df, "bowler", player))}) :
                out' = [page |-> "player_bowler", player |-> player,
                        selected |-> selected_batsman,
                        res |-> IF key # None THEN [status |-> "KeyError", key |-> key]
                                ELSE IF player = None THEN None
                                ELSE player_bowler(df, player, selected_batsman)]
    /\ page_df' = df
    /\ UNCHANGED <<raw, file, df, pc>>

analyze_batsman_columns == <<"batter", "batsman_runs", "is_wicket", "match_id">>

\* analyze_batsman on a team's batting rows, for any batter of the table
AnalyzeBatsman ==
    /\ pc = "ready"
    /\ LET key == first_missing(df, analyze_batsman_columns)
       IN  \E team \in Unique(df, "batting_team"),
              player \in IF key = "batter" THEN {None} ELSE Unique(df, "batter") :
            out' = [page |-> "analyze_batsman", team |-> team, player |-> player,
                    res |-> IF key # None THEN [status |-> "KeyError", key |-> key]
                            ELSE analyze_batsman(Where(df, "batting_team", team), player)]
    /\ page_df' = df
    /\ UNCHANGED <<raw, file, df, pc>>

analyze_bowler_columns == <<"bowler", "is_wicket", "total_runs", "match_id">>

\* analyze_bowler on a team's bowling rows, for any bowler of the table
AnalyzeBowler ==
    /\ pc = "ready"
    /\ LET key == first_missing(df, analyze_bowler_columns)
       IN  \E team \in Unique(df, "bowling_team"),
              player \in IF key = "bowler" THEN {None} ELSE Unique(df, "bowler") :
            out' = [page |-> "analyze_bowler", team |-> team, player |-> player,
                    res |-> IF key # None THEN [status |-> "KeyError", key |-> key]
                            ELSE analyze_bowler(Where(df, "bowling_team", team), player)]
    /\ page_df' = df
    /\ UNCHANGED <<raw, file, df, pc>>

tournament_stats_columns == <<"match_id", "total_runs", "batsman_runs", "batter", "bowler",
                              "is_wicket", "over">>

TournamentStats ==
    /\ pc = "ready"
    /\ LET key == first_missing(df, tournament_stats_columns)
       IN  \E selected_season \in IF key = "match_id" THEN {None}
                                  ELSE Options(Unique(with_season(df), "season")) :
            \E selected_team \in
                  IF key # None THEN {None}
                  ELSE Options(Unique(Where(with_season(df), "season", selected_season),
                                      "batting_team")) :
                out' = [page |-> "tournament_stats", selected_season |-> selected_season,
                        selected_team |-> selected_team,
                        res |-> IF key # None THEN [status |-> "KeyError", key |-> key]
                                ELSE tournament_stats(df, selected_season, selected_team)]
    /\ page_df' = tournament_stats_df(df)
    /\ UNCHANGED <<raw, file, df, pc>>

TeamAnalysis ==
    /\ pc = "ready"
    /\ \E team \in Options(Unique(df, "batting_team")) :
        /\ out' = [page |-> "team_analysis", team |-> team, res |-> team_analysis(df, team)]
        /\ page_df' = team_analysis_df(df, team)
    /\ UNCHANGED <<raw, file, df, pc>>

\* the milestone view: the fifties and the centuries of the table
DetectMilestones ==
    /\ pc = "ready"
    /\ \E threshold \in {50, 100} :
        out' = [page |-> "milestones", threshold |-> threshold,
                res |-> detect_milestones(df, threshold)]
    /\ page_df' = df
    /\ UNCHANGED <<raw, file, df, pc>>

Next ==
    \/ Load
    \/ HeadToHead
    \/ PlayerBatsman
    \/ PlayerBowler
    \/ AnalyzeBatsman
    \/ AnalyzeBowler
    \/ TournamentStats
    \/ TeamAnalysis

Spec == Init /\ [][Next]_vars
SpecMatch == InitMatch /\ [][Next]_vars
SpecPhase == InitPhase /\ [][Next]_vars
SpecTeam == InitTeam /\ [][Next]_vars
SpecSchema == InitSchema /\ [][Next]_vars
SpecSpell == InitSpell /\ [][Next]_vars
SpecSample == InitSample /\ [][Next]_vars

\* the runs in which the milestone view is one of the pages
NextMilestone ==
    \/ Next
    \/ DetectMilestones

SpecMilestone == InitMilestone /\ [][NextMilestone]_vars

(***************************************************************************)
(* Properties.  They are stated over the loaded table with their own row   *)
(* counting (index sets), not with the operators of the pages.             *)
(***************************************************************************)
Idx(t, P(_)) == {i \in DOMAIN t : P(t[i])}

RECURSIVE Total(_, _, _)
Total(t, I, col) ==
    IF I = {} THEN 0
    ELSE LET i == CHOOSE j \in I : TRUE
         IN  t[i][col] + Total(t, I \ {i}, col)

\* v is runs / balls * 100, and the integer 0 when there are no balls
IsStrikeRate(v, runs, balls) ==
    IF balls = 0 THEN v = Zero
    ELSE v[2] > 0 /\ v[1] * balls = 100 * runs * v[2]

Abs(x) == IF x < 0 THEN -x ELSE x

\* v is the batting average of `runs` over `dismissals`
IsBattingAverage(v, runs, dismissals) ==
    IF dismissals = 0 THEN RatEq(v, Rat(runs, 1)) ELSE RatEq(v, Rat(runs, dismissals))

\* v is q rounded to two decimals: a whole number h of hundredths, the
\* nearest to q, the even one when two are equally near
IsRounded2(v, q) ==
    /\ v[2] = 100
    /\ 2 * Abs(100 * q[1] - v[1] * q[2]) <= q[2]
    /\ (2 * Abs(100 * q[1] - v[1] * q[2]) = q[2]) => (v[1] % 2 = 0)

\* the rows of out.player as batter against bowling team tm
BatterRowsAgainst(tm) == Idx(df, LAMBDA r : r.batter = out.player /\ r.bowling_team = tm)

\* C2 as stated: the average is sum(batsman_runs) with no dismissal and
\* sum(batsman_runs) / dismissals otherwise, in analyze_batsman and in the
\* per-opposition Average column of the player page.
C2_AverageExact ==
    /\ out.page = "analyze_batsman" =>
        LET I == Idx(df, LAMBDA r : r.batting_team = out.team /\ r.batter = out.player)
        IN  IsBattingAverage(out.res.average,
                             Total(df, I, "batsman_runs"), Total(df, I, "is_wicket"))
    /\ (out.page = "player_batsman" /\ out.player # None) =>
        \A tm \in DOMAIN out.res.team_stats :
            IsBattingAverage(out.res.team_stats[tm].Average,
                             Total(df, BatterRowsAgainst(tm), "batsman_runs"),
                             Total(df, BatterRowsAgainst(tm), "is_wicket"))

\* C2 as amended: analyze_batsman reports sum(batsman_runs) with no
\* dismissal and sum(batsman_runs) / dismissals otherwise; the Average
\* column of the player page reports the same quantity rounded to two
\* decimals, which is sum(batsman_runs) itself with no dismissal.
C2_AverageRounded ==
    /\ out.page = "analyze_batsman" =>
        LET I == Idx(df, LAMBDA r : r.batting_team = out.team /\ r.batter = out.player)
        IN  IsBattingAverage(out.res.average,
                             Total(df, I, "batsman_runs"), Total(df, I, "is_wicket"))
    /\ (out.page = "player_batsman" /\ out.player # None) =>
        \A tm \in DOMAIN out.res.team_stats :
            LET runs == Total(df, BatterRowsAgainst(tm), "batsman_runs")
                wk == Total(df, BatterRowsAgainst(tm), "is_wicket")
                v == out.res.team_stats[tm].Average
            IN  IF wk = 0 THEN RatEq(v, Rat(runs, 1))
                ELSE IsRounded2(v, Rat(runs, wk))

\* a batter out three times for one run against a team: Average 0.33
C2_Witness ==
    /\ out.page = "player_batsman"
    /\ out.player # None
    /\ \E tm \in DOMAIN out.res.team_stats :
        /\ out.res.team_stats[tm].is_wicket = 3
        /\ out.res.team_stats[tm].batsman_runs = 1
        /\ out.res.team_stats[tm].Average = <<33, 100>>

\* the rows of out.player as bowler among the bowling rows of out.team
BowlerRows == Idx(df, LAMBDA r : r.bowling_team = out.team /\ r.bowler = out.player)

Bowlers == {"JJ Bumrah", "RA Jadeja", "SL Malinga"}

\* C3: a bowler with no ball in the subset has economy 0, in analyze_bowler
\* and in the overview of the player page.
C3_ZeroBallsEconomy ==
    /\ (out.page = "analyze_bowler" /\ BowlerRows = {}) => out.res.economy = Zero
    /\ pc = "ready" =>
        \A b \in Bowlers :
            Idx(df, LAMBDA r : r.bowler = b) = {} =>
                player_bowler(df, b, None).economy = Zero

\* analyze_bowler on the bowling rows of a team the bowler never bowled for
C3_Witness ==
    /\ out.page = "analyze_bowler"
    /\ BowlerRows = {}
    /\ out.res.overs_bowled = <<0, 6>>
    /\ out.res.economy = Zero

\* v is runs per over for `balls` balls: runs * 6 / balls
IsEconomy(v, runs, balls) == RatEq(v, Rat(runs * 6, balls))

\* C4 as stated: every economy rate of a bowler (overall, per opposing team,
\* per batsman faced) is sum(total_runs) / (balls / 6), overs unrounded.
C4_EconomyExact ==
    /\ (out.page = "analyze_bowler" /\ BowlerRows # {}) =>
        IsEconomy(out.res.economy, Total(df, BowlerRows, "total_runs"),
                  Cardinality(BowlerRows))
    /\ (out.page = "player_bowler" /\ out.player # None) =>
        LET I == Idx(df, LAMBDA r : r.bowler = out.player)
            against(tm) == Idx(df, LAMBDA r : r.bowler = out.player /\ r.batting_team = tm)
            facing(b) == Idx(df, LAMBDA r : r.bowler = out.player /\ r.batter = b)
        IN  /\ IsEconomy(out.res.economy, Total(df, I, "total_runs"), Cardinality(I))
            /\ \A tm \in DOMAIN out.res.team_stats :
                IsEconomy(out.res.team_stats[tm].Economy,
                          Total(df, against(tm), "total_runs"), Cardinality(against(tm)))
            /\ \A r \in out.res.batsman_stats :
                IsEconomy(r.Economy, Total(df, facing(r.batter), "total_runs"),
                          Cardinality(facing(r.batter)))

BattedIn(tm) == {df[i].match_id : i \in Idx(df, LAMBDA r : r.batting_team = tm)}
MatchTotal(m, tm) ==
    Total(df, Idx(df, LAMBDA r : r.match_id = m /\ r.batting_team = tm), "total_runs")

\* C6: every match in which both selected teams batted is counted in exactly
\* one of team1 wins, team2 wins and ties, equal totals being a tie and a
\* win for neither, so that team1_wins + team2_wins + ties = matches_played.
C6_TiesAndWins ==
    (out.page = "head_to_head" /\ out.res.status = "ok") =>
        LET both == BattedIn(out.team1) \cap BattedIn(out.team2)
            t1(m) == MatchTotal(m, out.team1)
            t2(m) == MatchTotal(m, out.team2)
            r == out.res.results
        IN  /\ r.matches_played = Cardinality(both)
            /\ r.ties = Cardinality({m \in both : t1(m) = t2(m)})
            /\ r.team1_wins = Cardinality({m \in both : t1(m) > t2(m)})
            /\ r.team2_wins = Cardinality({m \in both : t2(m) > t1(m)})
            /\ r.team1_wins + r.team2_wins + r.ties = r.matches_played

\* one tied match, and a second match in which only one of the teams batted
C6_Witness ==
    /\ out.page = "head_to_head"
    /\ out.res.status = "ok"
    /\ out.res.results.ties = 1
    /\ out.res.results.team1_wins = 0
    /\ out.res.results.team2_wins = 0
    /\ out.res.results.matches_played = 1
    /\ Cardinality(Unique(df, "match_id")) = 2

\* the phase of the specification for an over in 1..20
PhaseOf(over) ==
    CASE over \in 1..6 -> "Powerplay (1-6)"
      [] over \in 7..15 -> "Middle Overs (7-15)"
      [] over \in 16..20 -> "Death Overs (16-20)"

\* C7: every over in 1..6 is Powerplay, in 7..15 Middle, in 16..20 Death,
\* each over of 1..20 in exactly one phase, both for get_phase (tournament
\* page) and for the phase ranges of the head-to-head page.
C7_Phases ==
    /\ out.page = "tournament_stats" =>
        \A i \in DOMAIN out.res.season_data :
            LET r == out.res.season_data[i]
            IN  r.over \in 1..20 => r.phase = PhaseOf(r.over)
    /\ (out.page = "head_to_head" /\ out.res.status = "ok") =>
        \A k \in DOMAIN phases :
            LET counted(tm) == Idx(df, LAMBDA r :
                                  /\ r.batting_team = tm
                                  /\ r.bowling_team \in {out.team1, out.team2} \ {tm}
                                  /\ r.over \in 1..20
                                  /\ PhaseOf(r.over) = phases[k].name)
            IN  /\ out.res.phase1[k].balls = Cardinality(counted(out.team1))
                /\ out.res.phase2[k].balls = Cardinality(counted(out.team2))

\* over 6 labelled Powerplay by get_phase
C7_Witness ==
    /\ out.page = "tournament_stats"
    /\ \E i \in DOMAIN out.res.season_data :
        /\ out.res.season_data[i].over = 6
        /\ out.res.season_data[i].phase = "Powerplay (1-6)"

\* C8: applying the team mapping twice gives what applying it once gives,
\* for every team name; no value of the mapping is a key that maps elsewhere.
C8_Idempotent ==
    /\ \A k \in DOMAIN team_mapping :
        replace(team_mapping, team_mapping[k]) = team_mapping[k]
    /\ pc = "ready" =>
        /\ normalize(df) = df
        /\ \A i \in DOMAIN raw :
            /\ replace(team_mapping, replace(team_mapping, raw[i].batting_team))
                 = df[i].batting_team
            /\ replace(team_mapping, replace(team_mapping, raw[i].bowling_team))
                 = df[i].bowling_team

\* a table that held both spellings of the Bengaluru franchise
C8_Witness ==
    /\ pc = "ready"
    /\ \E i, j \in DOMAIN raw :
        /\ raw[i].batting_team = "Royal Challengers Bangalore"
        /\ raw[j].batting_team = "Royal Challengers Bengaluru"
        /\ df[i].batting_team = df[j].batting_team

\* C9 as stated: "Deccan Chargers" is a key of the map and is replaced by
\* the current name of its franchise, which the map then leaves unchanged.
C9_DeccanChargers ==
    pc = "ready" =>
        \A i \in DOMAIN raw :
            raw[i].batting_team = "Deccan Chargers" =>
                /\ "Deccan Chargers" \in DOMAIN team_mapping
                /\ df[i].batting_team # "Deccan Chargers"
                /\ replace(team_mapping, df[i].batting_team) = df[i].batting_team

OtherColumns == {"match_id", "over", "batter", "bowler",
                 "batsman_runs", "total_runs", "is_wicket"}

\* C10: loading changes only the batting_team and bowling_team values that
\* are keys of the mapping; other names and every other column are kept,
\* and the rows are the same in number and order.
C10_LoadFrame ==
    pc = "ready" =>
        /\ Len(df) = Len(raw)
        /\ \A i \in DOMAIN raw :
            /\ \A c \in OtherColumns : df[i][c] = raw[i][c]
            /\ \A c \in {"batting_team", "bowling_team"} :
                IF raw[i][c] \in DOMAIN team_mapping
                THEN df[i][c] = team_mapping[raw[i][c]]
                ELSE df[i][c] = raw[i][c]

\* two rows, the first with a name the mapping does not know and the
\* second with one it replaces
C10_Witness ==
    /\ pc = "ready"
    /\ Len(raw) = 2
    /\ raw[1].batting_team = "Deccan Chargers"
    /\ raw[2].batting_team = "Rising Pune Supergiants"
    /\ df[1].batting_team = "Deccan Chargers"
    /\ df[2].batting_team = "Rising Pune Supergiant"


(***************************************************************************)
(* C11: the loaded table is never mutated in place: after any page has     *)
(* been rendered, the table the run got from load_data has the same        *)
(* columns and values as the loaded table, derived columns (season, phase) *)
(* being added to filtered or derived copies only.                         *)
(***************************************************************************)
C11_LoadedTableUnchanged ==
    out.page \notin {None, "error"} => page_df = df


(***************************************************************************)
(* C12: a table that lacks one of the required columns fails at load:      *)
(* load_data reports the failure and returns no table.                     *)
(***************************************************************************)
C12_FailFast ==
    (pc # "start" /\ file = "present" /\ Columns(raw) # AllColumns) => pc = "failed"

(***************************************************************************)
(* C13: whenever loading raises, load_data returns no table, main shows an *)
(* error and no page function is invoked: the run ends with the two error  *)
(* messages as its only output, and nothing follows it.                    *)
(***************************************************************************)
C13_LoadFailure ==
    (pc # "start" /\ load_raises(file, raw)) =>
        /\ pc = "failed"
        /\ df = None
        /\ page_df = None
        /\ out = [page |-> "error",
                  errors |-> <<"Error loading data", "Failed to load data">>]

C13_Witness ==
    /\ pc = "failed"
    /\ file = "present"
    /\ "bowling_team" \notin Columns(raw)
    /\ out.page = "error"


(***************************************************************************)
(* C14: the season of a delivery is the year its match_id starts with;     *)
(* where the leading digits of match_id are no year (the dashboard covers  *)
(* 2008 to 2024), the season is left absent rather than set to some other  *)
(* number.                                                                 *)
(***************************************************************************)
Years == 2008..2024

LeadingFour(n) ==
    IF n < 10000 THEN n
    ELSE CHOOSE k \in 1000..9999 : \E e \in 1..6 : n \div (10 ^ e) = k

C14_SeasonIsYearOrAbsent ==
    out.page = "tournament_stats" =>
        \A i \in DOMAIN page_df :
            IF LeadingFour(page_df[i].match_id) \in Years
            THEN page_df[i].season = LeadingFour(page_df[i].match_id)
            ELSE "season" \notin DOMAIN page_df[i]


(***************************************************************************)
(* C15: the best-bowling figure of analyze_bowler is the pair (wickets,    *)
(* runs conceded) of one single match of the bowler, the match that comes  *)
(* first when his matches are ranked by wickets, most first, and then by   *)
(* runs conceded, fewest first.                                            *)
(***************************************************************************)
BowlerMatches == {df[i].match_id : i \in BowlerRows}
BowlerMatchTotal(m, col) ==
    Total(df, {i \in BowlerRows : df[i].match_id = m}, col)

C15_BestBowling ==
    (out.page = "analyze_bowler" /\ BowlerRows # {}) =>
        \E m \in BowlerMatches :
            /\ out.res.best_bowling = <<Rat(BowlerMatchTotal(m, "is_wicket"), 1),
                                        Rat(BowlerMatchTotal(m, "total_runs"), 1)>>
            /\ \A n \in BowlerMatches :
                  \/ BowlerMatchTotal(n, "is_wicket") < BowlerMatchTotal(m, "is_wicket")
                  \/ /\ BowlerMatchTotal(n, "is_wicket") = BowlerMatchTotal(m, "is_wicket")
                     /\ BowlerMatchTotal(n, "total_runs") >= BowlerMatchTotal(m, "total_runs")


(***************************************************************************)
(* C16: in the head-to-head metrics the economy rate of a team is the runs *)
(* it conceded while bowling (the total_runs of the opponent's batting     *)
(* rows in these meetings) divided by the overs it bowled (the opponent's  *)
(* balls / 6), and 0 when it bowled no ball.                               *)
(***************************************************************************)
\* the rows of the meetings of the two selected teams in which tm bowled
BowledBy(tm, other) ==
    Idx(df, LAMBDA r : r.bowling_team = tm /\ r.batting_team = other)

IsTeamEconomy(v, tm, other) ==
    IF BowledBy(tm, other) = {} THEN v = Zero
    ELSE IsEconomy(v, Total(df, BowledBy(tm, other), "total_runs"),
                   Cardinality(BowledBy(tm, other)))

C16_TeamEconomy ==
    (out.page = "head_to_head" /\ out.res.status \in {"ok", "KeyError"}) =>
        /\ IsTeamEconomy(out.res.innings.team1.economy, out.team1, out.team2)
        /\ IsTeamEconomy(out.res.innings.team2.economy, out.team2, out.team1)

(***************************************************************************)
(* C17: a delivery whose batsman_runs is not one of 0, 1, 2, 3, 4, 6 is    *)
(* left out of the batting output: the total of analyze_batsman is the sum *)
(* over the batter's other deliveries.                                     *)
(***************************************************************************)
ValidBatsmanRuns == {0, 1, 2, 3, 4, 6}

C17_InvalidRunsExcluded ==
    out.page = "analyze_batsman" =>
        out.res.total_runs =
            Total(df, Idx(df, LAMBDA r : /\ r.batting_team = out.team
                                         /\ r.batter = out.player
                                         /\ r.batsman_runs \in ValidBatsmanRuns),
                  "batsman_runs")


(***************************************************************************)
(* C18: the minimum-sample filter of the player page comes after the       *)
(* metrics: runs, balls, dismissals and the rate of a group are taken over *)
(* all deliveries of the group, and then the groups with fewer than 6      *)
(* balls are dropped.  A retained group shows the metrics of all its       *)
(* deliveries; a group is retained exactly when it has 6 balls or more     *)
(* (there are at most ten groups here, so head(10) drops none).            *)
(***************************************************************************)
\* the rows of out.player as batter against bowler b / as bowler to batter b
FacedFrom(b) == Idx(df, LAMBDA r : r.batter = out.player /\ r.bowler = b)
BowledTo(b) == Idx(df, LAMBDA r : r.bowler = out.player /\ r.batter = b)

C18_FilterAfterMetrics ==
    /\ (out.page = "player_batsman" /\ out.player # None) =>
        \A b \in {df[i].bowler : i \in DOMAIN df} :
            /\ (Cardinality(FacedFrom(b)) >= 6) <=>
                    (\E r \in out.res.bowler_stats : r.bowler = b)
            /\ \A r \in out.res.bowler_stats :
                  r.bowler = b =>
                    /\ r.batter = Cardinality(FacedFrom(b))
                    /\ r.batsman_runs = Total(df, FacedFrom(b), "batsman_runs")
                    /\ r.is_wicket = Total(df, FacedFrom(b), "is_wicket")
                    /\ IsRounded2(r.Strike_Rate,
                                  Rat(100 * Total(df, FacedFrom(b), "batsman_runs"),
                                      Cardinality(FacedFrom(b))))
    /\ (out.page = "player_bowler" /\ out.player # None) =>
        \A b \in {df[i].batter : i \in DOMAIN df} :
            /\ (Cardinality(BowledTo(b)) >= 6) <=>
                    (\E r \in out.res.batsman_stats : r.batter = b)
            /\ \A r \in out.res.batsman_stats :
                  r.batter = b =>
                    /\ r.bowler = Cardinality(BowledTo(b))
                    /\ r.batsman_runs = Total(df, BowledTo(b), "batsman_runs")
                    /\ r.is_wicket = Total(df, BowledTo(b), "is_wicket")
                    /\ IsRounded2(r.Economy,
                                  Rat(6 * Total(df, BowledTo(b), "batsman_runs"),
                                      Cardinality(BowledTo(b))))

\* MS Dhoni's page with JJ Bumrah retained (six balls, among them a dot
\* ball) and picked, and SL Malinga (one ball) dropped
C18_Witness ==
    /\ out.page = "player_batsman"
    /\ out.player = "MS Dhoni"
    /\ out.selected = "JJ Bumrah"
    /\ Cardinality(FacedFrom("JJ Bumrah")) = 6
    /\ Cardinality(FacedFrom("SL Malinga")) = 1
    /\ \E i \in FacedFrom("JJ Bumrah") : df[i].batsman_runs = 0
    /\ \E r \in out.res.bowler_stats : r.bowler = "JJ Bumrah" /\ r.batter = 6


(***************************************************************************)
(* C19: for every (match_id, batter) pair the milestone record, if any,    *)
(* has as balls_to_threshold the number of the batter's balls in the match *)
(* up to and including the first one at which the running sum of           *)
(* batsman_runs, in source order, reaches the threshold, and the match     *)
(* total as final_score; a batter whose match total stays below the        *)
(* threshold has no record.  The fifties and centuries analyze_batsman     *)
(* counts are the batter's records at 50 and at 100.                       *)
(***************************************************************************)
\* the rows of batter b in match m, and those of them up to row i
InningsRows(m, b) == Idx(df, LAMBDA r : r.match_id = m /\ r.batter = b)
InningsUpTo(m, b, i) == {j \in InningsRows(m, b) : j <= i}

C19_Milestones ==
    /\ out.page = "milestones" =>
        \A m \in {df[i].match_id : i \in DOMAIN df}, b \in {df[i].batter : i \in DOMAIN df} :
            LET hits == {i \in InningsRows(m, b) :
                            Total(df, InningsUpTo(m, b, i), "batsman_runs") >= out.threshold}
                recs == {r \in out.res : r.match_id = m /\ r.player = b}
            IN  IF hits = {} THEN recs = {}
                ELSE \E i \in hits :
                        /\ \A j \in hits : i <= j
                        /\ recs = {[player |-> b, match_id |-> m,
                                    balls_to_threshold |-> Cardinality(InningsUpTo(m, b, i)),
                                    final_score |-> Total(df, InningsRows(m, b), "batsman_runs"),
                                    opponent |-> df[i].bowling_team]}
    /\ out.page = "analyze_batsman" =>
        LET team_rows == Where(df, "batting_team", out.team)
        IN  /\ out.res.fifties =
                  Cardinality({r \in detect_milestones(team_rows, 50) : r.player = out.player})
            /\ out.res.centuries =
                  Cardinality({r \in detect_milestones(team_rows, 100) : r.player = out.player})

\* thirteen fours in a row: the fifty comes with the thirteenth ball, at 52
C19_Witness ==
    /\ out.page = "milestones"
    /\ out.threshold = 50
    /\ Len(df) = 13
    /\ \A i \in DOMAIN df : df[i].batter = "MS Dhoni" /\ df[i].batsman_runs = 4
    /\ out.res = {[player |-> "MS Dhoni", match_id |-> 335982, balls_to_threshold |-> 13,
                   final_score |-> 52, opponent |-> "Mumbai Indians"]}


(***************************************************************************)
(* C20: on the Team Analysis page the season column is there when the      *)
(* team's batting and bowling rows are grouped by season: with a team      *)
(* selected, the page gets past the grouping and does not fail.            *)
(***************************************************************************)
C20_SeasonGroupingWorks ==
    (out.page = "team_analysis" /\ out.team # None) => out.res.status # "KeyError"


(***************************************************************************)
(* C21: the phase ranges of the head-to-head page and get_phase of the     *)
(* tournament page agree on every over of the data, 0 and overs above 20   *)
(* included: a team's delivery is counted in a phase of the head-to-head   *)
(* page exactly when get_phase gives it the label of that phase, so the    *)
(* three phase run totals of a team add up to the team's runs.             *)
(***************************************************************************)
\* the rows of tm batting against the other selected team
MeetingRows(tm) ==
    Idx(df, LAMBDA r : /\ r.batting_team = tm
                       /\ r.bowling_team \in {out.team1, out.team2} \ {tm})

C21_PhasesAgree ==
    (out.page = "head_to_head" /\ out.res.status = "ok") =>
        /\ \A k \in DOMAIN phases :
            /\ out.res.phase1[k].balls =
                  Cardinality({i \in MeetingRows(out.team1) :
                                  get_phase(df[i].over) = phases[k].name})
            /\ out.res.phase2[k].balls =
                  Cardinality({i \in MeetingRows(out.team2) :
                                  get_phase(df[i].over) = phases[k].name})
        /\ out.res.phase1[1].runs + out.res.phase1[2].runs + out.res.phase1[3].runs
              = out.res.innings.team1.runs
        /\ out.res.phase2[1].runs + out.res.phase2[2].runs + out.res.phase2[3].runs
              = out.res.innings.team2.runs

(***************************************************************************)
(* C22: in the head-to-head metrics a selected team without a delivery     *)
(* against the other team has the number 0 as Highest Innings Score.       *)
(***************************************************************************)
C22_HighestIsZero ==
    (out.page = "head_to_head" /\ out.res.status \in {"ok", "KeyError"}) =>
        /\ MeetingRows(out.team1) = {} => out.res.innings.team1.highest = Zero
        /\ MeetingRows(out.team2) = {} => out.res.innings.team2.highest = Zero

====
